---- MODULE Spec2Model ----
(***************************************************************************)
(* A model of the Annoti record store (src-tauri/src/db.rs): the users,    *)
(* documents and annotations tables, the document upsert, the annotation   *)
(* CRUD, the export/import package codec and the merge of imported         *)
(* annotations.  Spec runs every handler to completion in one step;        *)
(* SpecConc runs the multi-statement handlers one SQL statement at a time, *)
(* as the command layer of lib.rs dispatches them (one connection and one  *)
(* async task per call).                                                   *)
(***************************************************************************)
EXTENDS Integers, Sequences, FiniteSets, TLC

VARIABLES users, documents, annotations, clock, nextUuid,
          exported, decoded, lastOp, procs, files, mig

vars == <<users, documents, annotations, clock, nextUuid,
          exported, decoded, lastOp, procs, files, mig>>

store == <<users, documents, annotations>>

(***************************************************************************)
(* Bounds of the model.                                                    *)
(***************************************************************************)
\* Utc::now() takes the values 1..MaxClock
MaxClock == 2
\* Uuid::new_v4() is drawn at most MaxUuid times
MaxUuid == 2
\* ... and at most MaxMigUuid times where sidecar files are migrated
MaxMigUuid == 6

(***************************************************************************)
(* The values the commands are called with.                                *)
(***************************************************************************)
Paths == {"dir/p1.md", "dir/p2.md"}
Contents == {"c1", "c2"}
Texts == {"A", "B", "C"}
\* ids made by the caller of add_annotation (the front end), and the ids a
\* package written by another store carries
ClientIds == {-1, -2}
SourceIds == [annotation |-> -3, document |-> -4, user |-> -5]
Procs == {"t1", "t2"}

\* the presentation fields of an annotation, as the front end sends them
Styles ==
  { [note |-> <<>>, note_visible |-> FALSE,
     note_position_x |-> 0, note_position_y |-> 0,
     note_width |-> 280, note_height |-> 180,
     highlight_color |-> "#ffd700", highlight_type |-> "underline",
     anchor_data |-> "anchor1"],
    [note |-> <<"n">>, note_visible |-> TRUE,
     note_position_x |-> 10, note_position_y |-> 20,
     note_width |-> 300, note_height |-> 200,
     highlight_color |-> "#ff0000", highlight_type |-> "background",
     anchor_data |-> "anchor2"] }

StyleFields == {"note", "note_visible", "note_position_x", "note_position_y",
                "note_width", "note_height", "highlight_color",
                "highlight_type", "anchor_data"}

(***************************************************************************)
(* Result<T, String> and Option<T>.                                        *)
(***************************************************************************)
Ok(v) == [ok |-> TRUE, val |-> v]
Err(m) == [ok |-> FALSE, val |-> m]
\* Option<T> is a sequence of length 0 or 1
None == <<>>
Some(v) == <<v>>

RECURSIVE SeqToSet(_)
SeqToSet(s) == IF s = <<>> THEN {} ELSE {Head(s)} \cup SeqToSet(Tail(s))

(***************************************************************************)
(* Checksum service.                                                       *)
(***************************************************************************)
\* SHA-256 of the content's bytes, in hex: a function of the content alone,
\* and one-to-one on the contents of the model
compute_checksum(content) == <<"sha256", content>>

(***************************************************************************)
(* The documents table: id TEXT PRIMARY KEY, path TEXT UNIQUE NOT NULL.    *)
(***************************************************************************)
\* SELECT ... FROM documents WHERE path = ?, first row if any
get_document_by_path(docs, path) ==
  IF \E d \in docs : d.path = path
  THEN Some(CHOOSE d \in docs : d.path = path)
  ELSE None

\* a mutant: the table without the UNIQUE constraint on path
InsertDocumentNoUnique(docs, row) ==
  IF \E d \in docs : d.id = row.id
  THEN Err("constraint")
  ELSE Ok(docs \cup {row})

\* INSERT INTO documents: refused when the id or the path is already there
InsertDocument(docs, row) ==
  IF \E d \in docs : d.id = row.id \/ d.path = row.path
  THEN Err("constraint")
  ELSE Ok(docs \cup {row})

\* a mutant: the UPDATE writes the content and leaves the checksum
UpdateDocumentStaleChecksum(docs, id, content, checksum, now) ==
  { IF d.id = id
    THEN [d EXCEPT !.content = content, !.last_modified = now]
    ELSE d : d \in docs }

\* UPDATE documents SET content = ?, checksum = ?, last_modified = ? WHERE id = ?
UpdateDocument(docs, id, content, checksum, now) ==
  { IF d.id = id
    THEN [d EXCEPT !.content = content, !.checksum = checksum,
                   !.last_modified = now]
    ELSE d : d \in docs }

\* DELETE FROM documents WHERE id = ?
DeleteDocumentRow(docs, doc_id) == { d \in docs : d.id # doc_id }

\* DELETE FROM annotations WHERE document_id = ?
DeleteAnnotationsOf(annos, doc_id) == { a \in annos : a.document_id # doc_id }

\* a mutant: the record returned by an update carries a new created_at
UpdatedDocumentRecordNewCreated(existing, path, content, checksum, now) ==
  [id |-> existing.id, path |-> path, content |-> content,
   checksum |-> checksum, last_modified |-> now, created_at |-> now]

\* the DocumentRecord save_document returns after an update
UpdatedDocumentRecord(existing, path, content, checksum, now) ==
  [id |-> existing.id, path |-> path, content |-> content,
   checksum |-> checksum, last_modified |-> now,
   created_at |-> existing.created_at]

\* the DocumentRecord save_document inserts and returns for a new path
NewDocumentRecord(id, path, content, checksum, now) ==
  [id |-> id, path |-> path, content |-> content,
   checksum |-> checksum, last_modified |-> now, created_at |-> now]

\* save_document run to completion on the table docs: the table after it,
\* its result and whether it drew a uuid
save_document(docs, path, content, now, uuid) ==
  LET checksum == compute_checksum(content)
      existing == get_document_by_path(docs, path)
  IN IF existing # None
     THEN [docs |-> UpdateDocument(docs, existing[1].id, content, checksum, now),
           ret |-> Ok(UpdatedDocumentRecord(existing[1], path, content,
                                            checksum, now)),
           drew |-> 0]
     ELSE LET row == NewDocumentRecord(uuid, path, content, checksum, now)
              ins == InsertDocument(docs, row)
          IN IF ins.ok
             THEN [docs |-> ins.val, ret |-> Ok(row), drew |-> 1]
             ELSE [docs |-> docs, ret |-> ins, drew |-> 1]

(***************************************************************************)
(* The annotations table: id TEXT PRIMARY KEY, note_visible INTEGER.  An   *)
(* AnnotationRecord holds note_visible as a bool, a row as 0 or 1.         *)
(***************************************************************************)
AnnotationFields == {"id", "document_id", "user_id", "user_name", "text",
                     "created_at", "updated_at"} \cup StyleFields

\* an AnnotationRecord as the front end or a package of another store gives it
MakeAnnotation(id, document_id, user_id, user_name, text, style, created_at) ==
  [id |-> id, document_id |-> document_id, user_id |-> user_id,
   user_name |-> user_name, text |-> text,
   note |-> style.note, note_visible |-> style.note_visible,
   note_position_x |-> style.note_position_x,
   note_position_y |-> style.note_position_y,
   note_width |-> style.note_width, note_height |-> style.note_height,
   highlight_color |-> style.highlight_color,
   highlight_type |-> style.highlight_type,
   anchor_data |-> style.anchor_data,
   created_at |-> created_at, updated_at |-> created_at]

\* row -> AnnotationRecord: note_visible is row.get::<i32>(6) != 0
row_to_annotation(row) == [row EXCEPT !.note_visible = (row.note_visible # 0)]

\* SELECT ... FROM annotations WHERE id = ?
get_annotation_by_id(annos, id) ==
  IF \E r \in annos : r.id = id
  THEN Some(row_to_annotation(CHOOSE r \in annos : r.id = id))
  ELSE None

\* a mutant: the row takes updated_at from the record
AnnotationRowKeepUpdated(annotation, now) ==
  [annotation EXCEPT !.note_visible = IF annotation.note_visible THEN 1 ELSE 0]

\* the row add_annotation binds: note_visible as 1 or 0, updated_at = now,
\* every other column from the record
AnnotationRow(annotation, now) ==
  [annotation EXCEPT !.note_visible = IF annotation.note_visible THEN 1 ELSE 0,
                     !.updated_at = now]

\* INSERT INTO annotations: refused when the id is already there
add_annotation(annos, annotation, now) ==
  IF \E r \in annos : r.id = annotation.id
  THEN Err("constraint")
  ELSE Ok(annos \cup {AnnotationRow(annotation, now)})

\* a mutant: the UPDATE also writes the text column
UpdatedRowWithText(row, annotation, now) ==
  [row EXCEPT !.text = annotation.text,
              !.note = annotation.note,
              !.note_visible = IF annotation.note_visible THEN 1 ELSE 0,
              !.note_position_x = annotation.note_position_x,
              !.note_position_y = annotation.note_position_y,
              !.note_width = annotation.note_width,
              !.note_height = annotation.note_height,
              !.highlight_color = annotation.highlight_color,
              !.highlight_type = annotation.highlight_type,
              !.anchor_data = annotation.anchor_data,
              !.updated_at = now]

\* the columns the UPDATE of update_annotation sets
UpdatedRow(row, annotation, now) ==
  [row EXCEPT !.note = annotation.note,
              !.note_visible = IF annotation.note_visible THEN 1 ELSE 0,
              !.note_position_x = annotation.note_position_x,
              !.note_position_y = annotation.note_position_y,
              !.note_width = annotation.note_width,
              !.note_height = annotation.note_height,
              !.highlight_color = annotation.highlight_color,
              !.highlight_type = annotation.highlight_type,
              !.anchor_data = annotation.anchor_data,
              !.updated_at = now]

\* UPDATE annotations SET ... WHERE id = ?
update_annotation(annos, annotation, now) ==
  { IF r.id = annotation.id THEN UpdatedRow(r, annotation, now) ELSE r :
      r \in annos }

\* DELETE FROM annotations WHERE id = ?
delete_annotation(annos, id) == { r \in annos : r.id # id }

(***************************************************************************)
(* The package codec.  A JSON object is a record whose domain is the set   *)
(* of keys present; a JSON null is <<"null">>, a JSON string value of an   *)
(* optional field <<"string", s>>.                                         *)
(***************************************************************************)
\* serde's Serialize of AnnotationRecord: note None is written as null
AnnotationToJson(a) ==
  [a EXCEPT !.note = IF a.note = None THEN <<"null">>
                     ELSE <<"string", a.note[1]>>]

\* a mutant: the note of a decoded annotation is dropped
JsonToAnnotationNoNote(j) ==
  IF (AnnotationFields \ {"note"}) \subseteq DOMAIN j
  THEN Ok([f \in AnnotationFields |-> IF f = "note" THEN None ELSE j[f]])
  ELSE Err("missing field")

\* serde's Deserialize of AnnotationRecord: every field but the Option is
\* required, unknown keys are dropped
JsonToAnnotation(j) ==
  IF (AnnotationFields \ {"note"}) \subseteq DOMAIN j
  THEN Ok([f \in AnnotationFields |->
             IF f = "note"
             THEN IF "note" \in DOMAIN j /\ j.note # <<"null">>
                  THEN Some(j.note[2]) ELSE None
             ELSE j[f]])
  ELSE Err("missing field")

\* Path::file_name of a document path
file_name(path) ==
  CASE path = "dir/p1.md" -> "p1.md"
    [] path = "dir/p2.md" -> "p2.md"
    [] OTHER -> ""

\* export_annotation: the BatchPackage of one annotation, as JSON
export_annotation(annos, docs, anno_id, doc_path, now) ==
  LET annotation == get_annotation_by_id(annos, anno_id)
      doc == get_document_by_path(docs, doc_path)
  IN IF annotation = None THEN Err("Annotation not found")
     ELSE IF doc = None THEN Err("Document not found")
     ELSE Ok([version |-> "1.0",
              exported_at |-> now,
              source_document |-> [name |-> file_name(doc[1].path),
                                   checksum |-> doc[1].checksum],
              annotations |-> <<AnnotationToJson(annotation[1])>>])

\* Deserialize of BatchPackage (source_document is an Option)
ParseBatch(j) ==
  IF {"version", "exported_at", "annotations"} \subseteq DOMAIN j
  THEN IF \A i \in 1..Len(j.annotations) : JsonToAnnotation(j.annotations[i]).ok
       THEN Ok([version |-> j.version,
                annotations |-> [i \in 1..Len(j.annotations) |->
                                   JsonToAnnotation(j.annotations[i]).val]])
       ELSE Err("data did not match")
  ELSE Err("data did not match")

\* Deserialize of SinglePackage
ParseSingle(j) ==
  IF {"version", "exported_at", "annotation"} \subseteq DOMAIN j
  THEN IF JsonToAnnotation(j.annotation).ok
       THEN Ok([version |-> j.version,
                annotations |-> <<JsonToAnnotation(j.annotation).val>>])
       ELSE Err("data did not match")
  ELSE Err("data did not match")

\* a mutant: the legacy single shape is accepted whatever its version
CheckVersionBatchOnly(batch, single) ==
  IF batch.ok
  THEN IF batch.val.version # "1.0" THEN Err("Unsupported version")
       ELSE Ok(batch.val.annotations)
  ELSE IF single.ok
  THEN Ok(single.val.annotations)
  ELSE Err("data did not match any variant")

\* the untagged enum (Batch tried first, then Single) and the version check
\* of the matching arm
CheckVersion(batch, single) ==
  IF batch.ok
  THEN IF batch.val.version # "1.0" THEN Err("Unsupported version")
       ELSE Ok(batch.val.annotations)
  ELSE IF single.ok
  THEN IF single.val.version # "1.0" THEN Err("Unsupported version")
       ELSE Ok(single.val.annotations)
  ELSE Err("data did not match any variant")

\* a mutant: the decoded annotations keep the ids of the package
FreshIdsKept(list, uuid) == list

\* the loop of import_annotation: the i-th annotation gets the i-th uuid drawn
FreshIds(list, uuid) ==
  [i \in 1..Len(list) |-> [list[i] EXCEPT !.id = uuid + i - 1]]

\* import_annotation: the list it returns and the number of uuids it drew
import_annotation(json, uuid) ==
  LET list == CheckVersion(ParseBatch(json), ParseSingle(json))
  IN IF list.ok
     THEN [ret |-> Ok(FreshIds(list.val, uuid)), drew |-> Len(list.val)]
     ELSE [ret |-> list, drew |-> 0]

(***************************************************************************)
(* The merge of imported annotations.                                      *)
(***************************************************************************)
\* a mutant: the annotation is inserted on the document it came with
merge_imported_annotation_no_rebind(annos, annotation, doc_id, now, now2) ==
  add_annotation(annos, [annotation EXCEPT !.created_at = now], now2)

\* merge_imported_annotation: rebinds document_id, resets created_at and
\* inserts under the id the annotation carries; now2 is add_annotation's clock
merge_imported_annotation(annos, annotation, doc_id, now, now2) ==
  add_annotation(annos,
                 [annotation EXCEPT !.document_id = doc_id, !.created_at = now],
                 now2)

\* a mutant: the texts of every document are taken
existing_texts_all(annos, doc_id) == { r.text : r \in annos }

\* SELECT text FROM annotations WHERE document_id = ?, as a HashSet
existing_texts(annos, doc_id) ==
  { r.text : r \in { x \in annos : x.document_id = doc_id } }

\* a mutant: the text is looked up among the rows the document has now
IsDuplicateNow(text, texts, annos, doc_id) ==
  text \in existing_texts(annos, doc_id)

\* existing_texts.contains(&anno.text): texts is the set captured before the
\* loop, annos the table as the loop has left it so far
IsDuplicate(text, texts, annos, doc_id) == text \in texts

\* the record merge_imported_annotations hands to add_annotation
MergedAnnotation(anno, id, doc_id, now) ==
  [anno EXCEPT !.id = id, !.document_id = doc_id,
               !.created_at = now, !.updated_at = now]

\* the for loop of merge_imported_annotations from its i-th annotation on.
\* st: the table, the count, the rows inserted, the uuids drawn and the clock
\* so far; c: the call's doc_id, now, first uuid, the texts captured, the
\* clock's advance before each insert and the insert that fails (0: none)
RECURSIVE MergeLoop(_, _, _, _)
MergeLoop(st, list, i, c) ==
  IF i > Len(list) THEN [st EXCEPT !.ok = TRUE]
  ELSE IF IsDuplicate(list[i].text, c.texts, st.annos, c.doc_id)
  THEN MergeLoop(st, list, i + 1, c)
  ELSE LET anno == MergedAnnotation(list[i], c.uuid + st.drew, c.doc_id, c.now)
           t == st.clock + c.ticks[i]
           ins == IF c.failAt = i THEN Err("io")
                  ELSE add_annotation(st.annos, anno, t)
       IN IF ins.ok
          THEN MergeLoop([st EXCEPT !.annos = ins.val,
                                    !.count = st.count + 1,
                                    !.inserted = Append(st.inserted,
                                                        AnnotationRow(anno, t)),
                                    !.drew = st.drew + 1,
                                    !.clock = t],
                         list, i + 1, c)
          ELSE [st EXCEPT !.ok = FALSE, !.drew = st.drew + 1, !.clock = t]

\* merge_imported_annotations run to completion
merge_imported_annotations(annos, list, doc_id, now, uuid, ticks, failAt) ==
  MergeLoop([annos |-> annos, ok |-> TRUE, count |-> 0, inserted |-> <<>>,
             drew |-> 0, clock |-> now],
            list, 1,
            [doc_id |-> doc_id, now |-> now, uuid |-> uuid,
             texts |-> existing_texts(annos, doc_id),
             ticks |-> ticks, failAt |-> failAt])

(***************************************************************************)
(* delete_document and get_or_create_user.                                 *)
(***************************************************************************)
\* a mutant: the document row is deleted before its annotations
delete_document_row_first(annos, docs, doc_id, failAt) ==
  IF failAt = 1 THEN [annos |-> annos, docs |-> docs, ok |-> FALSE]
  ELSE IF failAt = 2
  THEN [annos |-> annos, docs |-> DeleteDocumentRow(docs, doc_id), ok |-> FALSE]
  ELSE [annos |-> DeleteAnnotationsOf(annos, doc_id),
        docs |-> DeleteDocumentRow(docs, doc_id), ok |-> TRUE]

\* delete_document run to completion; failAt is the statement (1 or 2) whose
\* execute returns an error, 0 when none does
delete_document(annos, docs, doc_id, failAt) ==
  IF failAt = 1 THEN [annos |-> annos, docs |-> docs, ok |-> FALSE]
  ELSE IF failAt = 2
  THEN [annos |-> DeleteAnnotationsOf(annos, doc_id), docs |-> docs, ok |-> FALSE]
  ELSE [annos |-> DeleteAnnotationsOf(annos, doc_id),
        docs |-> DeleteDocumentRow(docs, doc_id), ok |-> TRUE]

\* get_or_create_user when its SELECT ... LIMIT 1 returned the row `seen`
\* (None: no row)
get_or_create_user(us, seen, name, now, uuid) ==
  IF seen # None
  THEN [users |-> us, ret |-> seen[1], drew |-> 0]
  ELSE LET u == [id |-> uuid, name |-> name, created_at |-> now]
       IN [users |-> us \cup {u}, ret |-> u, drew |-> 1]

(***************************************************************************)
(* The inputs of the commands.                                             *)
(***************************************************************************)
StyleA == CHOOSE st \in Styles : st.note = None
StyleB == CHOOSE st \in Styles : st.note # None

\* an annotation of another store
SourceAnnotation(text, style) ==
  MakeAnnotation(SourceIds.annotation, SourceIds.document, SourceIds.user,
                 "other", text, style, 1)

\* the id and the excerpt of the annotations the front end adds
AddInputs == { [id |-> -1, text |-> "A"], [id |-> -2, text |-> "B"] }

\* lists the front end hands to merge_imported_annotations
BatchInputs ==
  { <<SourceAnnotation("A", StyleA), SourceAnnotation("C", StyleA),
      SourceAnnotation("C", StyleB)>>,
    <<SourceAnnotation("B", StyleB)>> }

\* package files of another store: the batch shape in a version that is not
\* 1.0, the legacy single shape in version 1.0 and in another version, and
\* an object of neither shape
PackageInputs ==
  { [version |-> "2.0", exported_at |-> 1,
     annotations |-> <<AnnotationToJson(SourceAnnotation("C", StyleB))>>] }
  \cup
  { [version |-> v, exported_at |-> 1,
     source_document |-> [name |-> "p1.md", checksum |-> compute_checksum("c1")],
     annotation |-> AnnotationToJson(SourceAnnotation("C", StyleA))] :
       v \in {"1.0", "2.0"} }
  \cup
  { [version |-> "1.0", exported_at |-> 1] }

\* the front end holds one thing at a time: the package it exported last
\* (with the row it was made from), or the list it decoded last (with the
\* package and the row that package was made from), which it hands to one
\* merge call
NoPackage == [json |-> None, anno |-> None]
Taken == [ok |-> TRUE, json |-> None, list |-> <<>>, anno |-> None]

\* what the last operation was called with and what it returned
NoOp ==
  [op |-> "none", ok |-> TRUE, path |-> "", content |-> "", id |-> 0,
   doc |-> None, arg |-> None, list |-> <<>>, count |-> 0, inserted |-> <<>>,
   json |-> None, failAt |-> 0]

\* a task of the command layer that runs no call; ret is what its last call
\* returned ("none", "ok" or "err")
Idle(ret) ==
  [pc |-> "idle", ret |-> ret, path |-> "", content |-> "", now |-> 0,
   existing |-> None, id |-> 0, name |-> "",
   list |-> <<>>, texts |-> {}, i |-> 0, count |-> 0]

\* a directory without sidecar files: per document path the sidecar file
\* (path + ".ann"), its backup (path + ".ann.backup.migrated"), and the
\* document files that can be read
NoFiles ==
  [ann |-> [p \in Paths |-> None], bak |-> [p \in Paths |-> None], docs |-> {}]

\* no run of migrate_sidecar_files so far
NoRun ==
  [pc |-> "idle", todo |-> <<>>, migrated |-> 0, errors |-> 0, ret |-> "none"]

\* the values Utc::now() can return once the clock has shown c
Now(c) == c..MaxClock

(***************************************************************************)
(* The stores the program starts on: data.db as init_db creates it, or as  *)
(* earlier runs have left it.                                              *)
(***************************************************************************)
AdminUser == [id |-> -10, name |-> "admin", created_at |-> 1]

Doc1 == NewDocumentRecord(-11, "dir/p1.md", "c1", compute_checksum("c1"), 1)
Doc2 == NewDocumentRecord(-12, "dir/p2.md", "c2", compute_checksum("c2"), 1)

\* a row add_annotation wrote for the user of the store
StoredRow(id, doc, text, style) ==
  AnnotationRow(MakeAnnotation(id, doc.id, AdminUser.id, AdminUser.name,
                               text, style, 1), 1)

InitRest ==
  /\ clock = 1
  /\ nextUuid = 1
  /\ exported = NoPackage
  /\ decoded = Taken
  /\ lastOp = NoOp
  /\ procs = [p \in Procs |-> Idle("none")]
  /\ files = NoFiles
  /\ mig = NoRun

\* a store with its user and two documents
Init ==
  /\ users = {AdminUser}
  /\ documents = {Doc1, Doc2}
  /\ annotations = {}
  /\ InitRest

\* the store init_db creates
InitEmpty ==
  /\ users = {}
  /\ documents = {}
  /\ annotations = {}
  /\ InitRest

(***************************************************************************)
(* The commands, each run to completion.                                   *)
(***************************************************************************)
\* get_current_user: get_or_create_user(conn, "admin")
GetOrCreateUser ==
  \E now \in Now(clock) :
  \E seen \in IF users = {} THEN {None} ELSE { Some(u) : u \in users } :
    LET r == get_or_create_user(users, seen, "admin", now, nextUuid)
    IN /\ nextUuid + r.drew - 1 <= MaxUuid
       /\ users' = r.users
       /\ nextUuid' = nextUuid + r.drew
       /\ clock' = IF r.drew = 1 THEN now ELSE clock
       /\ lastOp' = [NoOp EXCEPT !.op = "get_or_create_user", !.id = r.ret.id]
       /\ UNCHANGED <<documents, annotations, exported, decoded, procs, files, mig>>

SaveDocument ==
  \E path \in Paths, content \in Contents, now \in Now(clock) :
    LET r == save_document(documents, path, content, now, nextUuid)
    IN /\ nextUuid + r.drew - 1 <= MaxUuid
       /\ documents' = r.docs
       /\ nextUuid' = nextUuid + r.drew
       /\ clock' = now
       /\ lastOp' = [NoOp EXCEPT !.op = "save_document", !.ok = r.ret.ok,
                                 !.path = path, !.content = content,
                                 !.doc = IF r.ret.ok THEN Some(r.ret.val)
                                         ELSE None]
       /\ UNCHANGED <<users, annotations, exported, decoded, procs, files, mig>>

DeleteDocument ==
  \E d \in documents, failAt \in 0..2 :
    LET r == delete_document(annotations, documents, d.id, failAt)
    IN /\ annotations' = r.annos
       /\ documents' = r.docs
       /\ lastOp' = [NoOp EXCEPT !.op = "delete_document", !.ok = r.ok,
                                 !.id = d.id, !.failAt = failAt,
                                 !.count = Cardinality(annotations \ r.annos)]
       /\ UNCHANGED <<users, clock, nextUuid, exported, decoded, procs, files, mig>>

\* add_annotation with a record the front end made for a document and the
\* user of the store
AddAnnotation ==
  \E in \in AddInputs, d \in documents, u \in users, now \in Now(clock) :
    LET id == in.id
        a == MakeAnnotation(id, d.id, u.id, u.name, in.text, StyleA, clock)
        r == add_annotation(annotations, a, now)
    IN /\ annotations' = IF r.ok THEN r.val ELSE annotations
       /\ clock' = now
       /\ lastOp' = [NoOp EXCEPT !.op = "add_annotation", !.ok = r.ok,
                                 !.id = id, !.arg = Some(a)]
       /\ UNCHANGED <<users, documents, nextUuid, exported, decoded, procs, files, mig>>

\* update_annotation with a record whose id is that of a row or of none, and
\* whose other columns are the front end's
UpdateAnnotation ==
  \E id \in { r.id : r \in annotations } \cup ClientIds, style \in Styles,
     now \in Now(clock) :
    LET a == [SourceAnnotation("C", style) EXCEPT !.id = id]
    IN /\ annotations' = update_annotation(annotations, a, now)
       /\ clock' = now
       /\ lastOp' = [NoOp EXCEPT !.op = "update_annotation", !.id = id,
                                 !.arg = Some(a)]
       /\ UNCHANGED <<users, documents, nextUuid, exported, decoded, procs, files, mig>>

DeleteAnnotation ==
  \E id \in { r.id : r \in annotations } \cup ClientIds :
    /\ annotations' = delete_annotation(annotations, id)
    /\ lastOp' = [NoOp EXCEPT !.op = "delete_annotation", !.id = id]
    /\ UNCHANGED <<users, documents, clock, nextUuid, exported, decoded, procs, files, mig>>

(***************************************************************************)
(* The export, import and merge commands.  Each step is given with the     *)
(* values it is called with; lastOp keeps what the call returned.          *)
(***************************************************************************)
\* export_annotation(r.id, doc_path); the package is kept with the row it
\* was made from
ExportStep(r, doc_path) ==
  LET e == export_annotation(annotations, documents, r.id, doc_path, clock)
  IN /\ exported' = IF e.ok THEN [json |-> Some(e.val), anno |-> Some(r)]
                    ELSE exported
     /\ decoded' = IF e.ok THEN Taken ELSE decoded
     /\ lastOp' = [NoOp EXCEPT !.op = "export_annotation", !.ok = e.ok]
     /\ UNCHANGED <<users, documents, annotations, clock, nextUuid, procs, files, mig>>

\* an annotation of the store as it started is exported with the path of its
\* document or with a path the store does not hold
ExportAnnotation ==
  \E r \in { x \in annotations : x.user_id = AdminUser.id /\ x.id < 0 } :
  \E doc_path \in { d.path : d \in { x \in documents : x.id = r.document_id } }
                  \cup {"dir/none.md"} :
    ExportStep(r, doc_path)

\* import_annotation(json)
ImportStep(json) ==
  LET r == import_annotation(json, nextUuid)
  IN /\ nextUuid + r.drew - 1 <= MaxUuid
     /\ nextUuid' = nextUuid + r.drew
     /\ decoded' = [ok |-> r.ret.ok, json |-> Some(json),
                    list |-> IF r.ret.ok THEN r.ret.val ELSE <<>>,
                    anno |-> IF r.ret.ok /\ Some(json) = exported.json
                             THEN exported.anno ELSE None]
     /\ exported' = IF r.ret.ok THEN NoPackage ELSE exported
     /\ lastOp' = [NoOp EXCEPT !.op = "import_annotation", !.ok = r.ret.ok]
     /\ UNCHANGED <<users, documents, annotations, clock, procs, files, mig>>

\* the package last exported or a package of another store is imported
ImportInputs == PackageInputs \cup SeqToSet(exported.json)

ImportAnnotation == \E json \in ImportInputs : ImportStep(json)

\* merge_imported_annotation(a, doc_id); now2 is the clock add_annotation reads
MergeOneStep(a, doc_id, now2) ==
  LET r == merge_imported_annotation(annotations, a, doc_id, clock, now2)
  IN /\ annotations' = IF r.ok THEN r.val ELSE annotations
     /\ clock' = now2
     /\ decoded' = IF a \in SeqToSet(decoded.list) THEN Taken ELSE decoded
     /\ lastOp' = [NoOp EXCEPT !.op = "merge_imported_annotation", !.ok = r.ok,
                               !.count = IF r.ok THEN 1 ELSE 0]
     /\ UNCHANGED <<users, documents, nextUuid, exported, procs, files, mig>>

\* the annotations handed to merge_imported_annotation: a decoded one or one
\* of another store
MergeOneInputs ==
  SeqToSet(decoded.list) \cup { SourceAnnotation("C", StyleB) }

\* the document open in the front end when it merges what it decoded: the
\* document of the annotation it exported, the first one otherwise
MergeTargets ==
  IF decoded.anno # None THEN {decoded.anno[1].document_id} ELSE {Doc1.id}

\* a decoded annotation or one of another store is merged
MergeDecodedAnnotation ==
  \E a \in MergeOneInputs, doc_id \in MergeTargets :
    MergeOneStep(a, doc_id, clock)

\* an annotation of another store is merged while the clock may advance
MergeImportedAnnotation ==
  \E d \in documents, now2 \in Now(clock) :
    MergeOneStep(SourceAnnotation("C", StyleB), d.id, now2)

\* the annotations of list that merge_imported_annotations takes for new on
\* document doc_id
NotDuplicate(annos, list, doc_id) ==
  { i \in 1..Len(list) : list[i].text \notin existing_texts(annos, doc_id) }

RECURSIVE SumTo(_, _)
SumTo(f, n) == IF n = 0 THEN 0 ELSE f[n] + SumTo(f, n - 1)

\* merge_imported_annotations(list, doc_id); ticks is the advance of the
\* clock before each insert, failAt the insert that returns an error (0: none)
MergeBatchStep(list, doc_id, ticks, failAt) ==
  LET r == merge_imported_annotations(annotations, list, doc_id, clock,
                                      nextUuid, ticks, failAt)
  IN /\ clock + SumTo(ticks, Len(list)) <= MaxClock
     /\ nextUuid + r.drew - 1 <= MaxUuid
     /\ annotations' = r.annos
     /\ nextUuid' = nextUuid + r.drew
     /\ clock' = r.clock
     /\ lastOp' = [NoOp EXCEPT !.op = "merge_imported_annotations",
                               !.ok = r.ok,
                               !.count = IF r.ok THEN r.count ELSE 0]
     /\ decoded' = IF list = decoded.list THEN Taken ELSE decoded
     /\ UNCHANGED <<users, documents, exported, procs, files, mig>>

\* the clock stands still during the call
NoTicks(list) == [i \in 1..Len(list) |-> 0]

\* the clock advances only before an insert
MergeBatchTicks(list, doc_id) ==
  { t \in [1..Len(list) -> 0..1] :
      \A i \in 1..Len(list) :
        i \notin NotDuplicate(annotations, list, doc_id) => t[i] = 0 }

\* the decoded list is merged
MergeDecodedAnnotations ==
  \E doc_id \in MergeTargets :
    /\ decoded.list # <<>>
    /\ MergeBatchStep(decoded.list, doc_id, NoTicks(decoded.list), 0)

\* a list of another store is merged, while the clock may advance and an
\* insert may fail
MergeImportedAnnotations ==
  \E list \in BatchInputs, d \in documents :
  \E ticks \in MergeBatchTicks(list, d.id),
     failAt \in {0} \cup NotDuplicate(annotations, list, d.id) :
    MergeBatchStep(list, d.id, ticks, failAt)

(***************************************************************************)
(* Spec: the annotation commands and delete_document on a store with two   *)
(* documents.  SpecDocs: the document and user commands on a new store.    *)
(***************************************************************************)
Next ==
  \/ GetOrCreateUser
  \/ DeleteDocument
  \/ AddAnnotation
  \/ UpdateAnnotation
  \/ DeleteAnnotation

Spec == Init /\ [][Next]_vars

NextDocs ==
  \/ GetOrCreateUser
  \/ SaveDocument
  \/ DeleteDocument

SpecDocs == InitEmpty /\ [][NextDocs]_vars

(***************************************************************************)
(* SpecMerge: lists of another store are merged into a store that holds    *)
(* annotations.  SpecCodec: annotations are exported, packages imported,   *)
(* and what was decoded merged.                                            *)
(***************************************************************************)
InitAnnotations ==
  { StoredRow(-1, Doc1, "A", StyleA), StoredRow(-2, Doc1, "B", StyleB),
    StoredRow(-6, Doc2, "C", StyleB) }

InitMerge ==
  /\ users = {AdminUser}
  /\ documents = {Doc1, Doc2}
  /\ annotations \in { InitAnnotations,
                       { r \in InitAnnotations : r.document_id = Doc2.id } }
  /\ InitRest

NextMerge ==
  \/ MergeImportedAnnotation
  \/ MergeImportedAnnotations

SpecMerge == InitMerge /\ [][NextMerge]_vars

NextCodec ==
  \/ ExportAnnotation
  \/ ImportAnnotation
  \/ MergeDecodedAnnotation
  \/ MergeDecodedAnnotations

InitCodec ==
  /\ users = {AdminUser}
  /\ documents = {Doc1, Doc2}
  /\ annotations = { StoredRow(-1, Doc1, "A", StyleA),
                     StoredRow(-6, Doc2, "C", StyleB) }
  /\ InitRest

SpecCodec == InitCodec /\ [][NextCodec]_vars

(***************************************************************************)
(* SpecConc: the command layer runs each call as a task of its own, on a   *)
(* connection of its own; the statements of concurrent calls interleave.   *)
(***************************************************************************)
\* save_document up to its SELECT: the checksum and now are taken, then the
\* row of the path is read
SaveRead(p) ==
  \E path \in Paths, content \in Contents, now \in Now(clock) :
    /\ procs[p].pc = "idle"
    /\ clock' = now
    /\ procs' = [procs EXCEPT ![p] =
                   [Idle("none") EXCEPT !.pc = "save", !.path = path,
                      !.content = content, !.now = now,
                      !.existing = get_document_by_path(documents, path)]]
    /\ UNCHANGED <<users, documents, annotations, nextUuid, exported, decoded,
                   lastOp, files, mig>>

\* save_document from its SELECT on: the UPDATE of the row that was read
SaveUpdate(p) ==
  LET c == procs[p]
  IN /\ c.pc = "save"
     /\ c.existing # None
     /\ documents' = UpdateDocument(documents, c.existing[1].id, c.content,
                                    compute_checksum(c.content), c.now)
     /\ procs' = [procs EXCEPT ![p] = Idle("ok")]
     /\ UNCHANGED <<users, annotations, clock, nextUuid, exported, decoded,
                    lastOp, files, mig>>

\* save_document from its SELECT on: the INSERT when no row was read
SaveInsert(p) ==
  LET c == procs[p]
      row == NewDocumentRecord(nextUuid, c.path, c.content,
                               compute_checksum(c.content), c.now)
      ins == InsertDocument(documents, row)
  IN /\ c.pc = "save"
     /\ c.existing = None
     /\ nextUuid <= MaxUuid
     /\ nextUuid' = nextUuid + 1
     /\ documents' = IF ins.ok THEN ins.val ELSE documents
     /\ procs' = [procs EXCEPT ![p] = Idle(IF ins.ok THEN "ok" ELSE "err")]
     /\ UNCHANGED <<users, annotations, clock, exported, decoded, lastOp, files, mig>>

\* delete_document, first statement: the annotations of the document
DeleteAnnotationsStep(p) ==
  \E d \in documents :
    /\ procs[p].pc = "idle"
    /\ annotations' = DeleteAnnotationsOf(annotations, d.id)
    /\ procs' = [procs EXCEPT ![p] =
                   [Idle("none") EXCEPT !.pc = "delete", !.id = d.id]]
    /\ UNCHANGED <<users, documents, clock, nextUuid, exported, decoded, lastOp, files, mig>>

\* delete_document, second statement: the row of the document
DeleteDocumentStep(p) ==
  /\ procs[p].pc = "delete"
  /\ documents' = DeleteDocumentRow(documents, procs[p].id)
  /\ procs' = [procs EXCEPT ![p] = Idle("ok")]
  /\ UNCHANGED <<users, annotations, clock, nextUuid, exported, decoded,
                 lastOp, files, mig>>

NextConc ==
  \E p \in Procs :
    \/ SaveRead(p)
    \/ SaveUpdate(p)
    \/ SaveInsert(p)
    \/ DeleteAnnotationsStep(p)
    \/ DeleteDocumentStep(p)

SpecConc == InitEmpty /\ [][NextConc]_vars

(***************************************************************************)
(* SpecUsers: concurrent calls of get_or_create_user, by get_current_user  *)
(* ("admin") and by migrate_sidecar_files ("migrated"), on a new store.    *)
(***************************************************************************)
UserNames == {"admin", "migrated"}

\* get_or_create_user up to its SELECT ... LIMIT 1: a row that is seen is
\* returned at once (the task's id is the id of the row returned)
UserRead(p) ==
  \E name \in UserNames :
  \E seen \in IF users = {} THEN {None} ELSE { Some(u) : u \in users } :
    /\ procs[p].pc = "idle"
    /\ procs' = [procs EXCEPT ![p] =
                   IF seen # None
                   THEN [Idle("ok") EXCEPT
                           !.id = get_or_create_user(users, seen, name, clock,
                                                     nextUuid).ret.id,
                           !.name = name]
                   ELSE [Idle("none") EXCEPT !.pc = "user", !.name = name]]
    /\ UNCHANGED <<users, documents, annotations, clock, nextUuid, exported,
                   decoded, lastOp, files, mig>>

\* get_or_create_user after a SELECT that returned no row: the INSERT
UserInsert(p) ==
  \E now \in Now(clock) :
    LET r == get_or_create_user(users, None, procs[p].name, now, nextUuid)
    IN /\ procs[p].pc = "user"
       /\ nextUuid <= MaxUuid
       /\ users' = r.users
       /\ nextUuid' = nextUuid + r.drew
       /\ clock' = now
       /\ procs' = [procs EXCEPT ![p] =
                      [Idle("ok") EXCEPT !.id = r.ret.id,
                                         !.name = procs[p].name]]
       /\ UNCHANGED <<documents, annotations, exported, decoded, lastOp, files, mig>>

NextUsers ==
  \E p \in Procs :
    \/ UserRead(p)
    \/ UserInsert(p)

SpecUsers == InitEmpty /\ [][NextUsers]_vars

(***************************************************************************)
(* migrate_sidecar_files.  A sidecar file holds text that is no JSON array *)
(* ("garbage") or an array of legacy objects.                              *)
(***************************************************************************)
LegacyIds == [annotation |-> -7, document |-> -8, user |-> -9]

\* a legacy object that carries every field of AnnotationRecord
LegacyFull(text) ==
  AnnotationToJson(MakeAnnotation(LegacyIds.annotation, LegacyIds.document,
                                  LegacyIds.user, "old", text, StyleB, 1))

\* a legacy object of the format that had no highlight fields
LegacyPartial(text) ==
  [f \in DOMAIN LegacyFull(text) \ {"highlight_color", "highlight_type"} |->
     LegacyFull(text)[f]]

Garbage == [kind |-> "garbage", objs |-> <<>>]
LegacyArray(objs) == [kind |-> "array", objs |-> objs]

\* fs::read_to_string of a document file
DocFileContent(path) == IF path = "dir/p1.md" THEN "c1" ELSE "c2"

\* a mutant: the backup is written and the sidecar stays where it is
RenameCopies(fs, doc_path) ==
  [fs EXCEPT !.bak[doc_path] = fs.ann[doc_path]]

\* fs::rename(path, path + ".backup.migrated")
Rename(fs, doc_path) ==
  [fs EXCEPT !.bak[doc_path] = fs.ann[doc_path], !.ann[doc_path] = None]

\* the record the loop hands to add_annotation for the converted object
LegacyAnnotation(anno, id, doc, user) ==
  [anno EXCEPT !.id = id, !.document_id = doc.id, !.user_id = user.id,
               !.user_name = user.name, !.highlight_color = "#ffd700",
               !.highlight_type = "underline"]

\* a mutant: the loop over the records stops at the insert that fails
InsertFailedStop(st) == [st EXCEPT !.errors = st.errors + 1,
                                   !.drew = st.drew + 1, !.stop = TRUE]

\* add_annotation returned Err: the error is counted and the loop goes on
InsertFailed(st) == [st EXCEPT !.errors = st.errors + 1, !.drew = st.drew + 1]

\* a mutant: an object that does not convert is counted as an error and
\* the records after it are left out, the call going on with the rename
ConversionFailedCounted(st) ==
  [st EXCEPT !.errors = st.errors + 1, !.stop = TRUE]

\* serde_json::from_value returned Err: the ? returns it from the function
ConversionFailed(st) == [st EXCEPT !.ok = FALSE]

\* the loop over the records of one sidecar file from its i-th object on.
\* st: the table, the counters, the uuids drawn, whether a conversion failed
\* (ok = FALSE: the function returns Err); c: the document, the user, now, the
\* first uuid and the set of the inserts that fail
RECURSIVE MigrateRecords(_, _, _, _)
MigrateRecords(st, objs, i, c) ==
  IF i > Len(objs) \/ st.stop THEN st
  ELSE LET conv == JsonToAnnotation(objs[i])
       IN IF ~conv.ok THEN ConversionFailed(st)
          ELSE LET anno == LegacyAnnotation(conv.val, c.uuid + st.drew,
                                            c.doc, c.user)
                   ins == IF i \in c.fail THEN Err("io")
                          ELSE add_annotation(st.annos, anno, c.now)
               IN MigrateRecords(
                    IF ins.ok
                    THEN [st EXCEPT !.annos = ins.val,
                                    !.migrated = st.migrated + 1,
                                    !.drew = st.drew + 1]
                    ELSE InsertFailed(st),
                    objs, i + 1, c)

\* what one pass of the loop over the directory leaves
EntryResult(us, docs, annos, fs, migrated, errors, drew, ok) ==
  [users |-> us, docs |-> docs, annos |-> annos, files |-> fs,
   migrated |-> migrated, errors |-> errors, drew |-> drew, ok |-> ok]

\* a mutant: a sidecar whose document cannot be read is renamed all the same
SkipEntryRenamed(us, docs, annos, fs, doc_path) ==
  EntryResult(us, docs, annos, Rename(fs, doc_path), 0, 1, 0, TRUE)

\* errors += 1; continue
SkipEntry(us, docs, annos, fs, doc_path) ==
  EntryResult(us, docs, annos, fs, 0, 1, 0, TRUE)

\* one pass of the loop over the directory, for the sidecar of doc_path.
\* seen: the row the SELECT ... LIMIT 1 of get_or_create_user returns; fail:
\* the inserts that fail; renameOk: whether fs::rename takes effect
migrate_entry(us, docs, annos, fs, doc_path, seen, now, uuid, fail, renameOk) ==
  LET content == fs.ann[doc_path]
  IN IF content = None \/ content[1].kind = "garbage"
     THEN SkipEntry(us, docs, annos, fs, doc_path)
     ELSE IF get_document_by_path(docs, doc_path) = None
             /\ doc_path \notin fs.docs
     THEN SkipEntry(us, docs, annos, fs, doc_path)
     ELSE LET sv == IF get_document_by_path(docs, doc_path) # None
                    THEN [docs |-> docs, drew |-> 0]
                    ELSE save_document(docs, doc_path,
                                       DocFileContent(doc_path), now, uuid)
              doc == get_document_by_path(sv.docs, doc_path)[1]
              ur == get_or_create_user(us, seen, "migrated", now,
                                       uuid + sv.drew)
              rs == MigrateRecords(
                      [annos |-> annos, migrated |-> 0, errors |-> 0,
                       drew |-> 0, ok |-> TRUE, stop |-> FALSE],
                      content[1].objs, 1,
                      [doc |-> doc, user |-> ur.ret, now |-> now,
                       uuid |-> uuid + sv.drew + ur.drew, fail |-> fail])
          IN EntryResult(ur.users, sv.docs, rs.annos,
                         IF rs.ok /\ renameOk THEN Rename(fs, doc_path) ELSE fs,
                         rs.migrated, rs.errors,
                         sv.drew + ur.drew + rs.drew, rs.ok)

\* the orders in which fs::read_dir can give the sidecar files
Orders(S) ==
  { o \in [1..Cardinality(S) -> S] :
      \A i, j \in 1..Cardinality(S) : o[i] = o[j] => i = j }

\* migrate_sidecar_files up to its loop: read_dir; entries that are no .ann
\* file are passed over
MigrateStart ==
  \E o \in Orders({ p \in Paths : files.ann[p] # None }) :
    /\ mig.pc = "idle"
    /\ mig' = [pc |-> "run", todo |-> o, migrated |-> 0, errors |-> 0,
               ret |-> "none"]
    /\ UNCHANGED <<users, documents, annotations, clock, nextUuid, exported,
                   decoded, lastOp, procs, files>>

\* one pass of the loop, for the first sidecar left; a conversion that fails
\* ends the call with Err
MigrateEntryStep(seen, fail, renameOk) ==
  LET r == migrate_entry(users, documents, annotations, files, Head(mig.todo),
                         seen, clock, nextUuid, fail, renameOk)
  IN /\ mig.pc = "run"
     /\ mig.todo # <<>>
     /\ nextUuid + r.drew - 1 <= MaxMigUuid
     /\ users' = r.users
     /\ documents' = r.docs
     /\ annotations' = r.annos
     /\ files' = r.files
     /\ nextUuid' = nextUuid + r.drew
     /\ mig' = IF r.ok
               THEN [mig EXCEPT !.todo = Tail(mig.todo),
                                !.migrated = mig.migrated + r.migrated,
                                !.errors = mig.errors + r.errors]
               ELSE [mig EXCEPT !.pc = "idle", !.ret = "err",
                                !.migrated = mig.migrated + r.migrated,
                                !.errors = mig.errors + r.errors]
     /\ UNCHANGED <<clock, exported, decoded, lastOp, procs>>

\* the inputs of one pass
SeenUsers == IF users = {} THEN {None} ELSE { Some(u) : u \in users }

RecordsOf(doc_path) ==
  IF files.ann[doc_path] = None THEN <<>> ELSE files.ann[doc_path][1].objs

MigrateEntry ==
  /\ mig.todo # <<>>
  /\ \E seen \in SeenUsers, renameOk \in BOOLEAN :
     \E fail \in SUBSET (1..Len(RecordsOf(Head(mig.todo)))) :
       MigrateEntryStep(seen, fail, renameOk)

\* the loop is over: the counters are printed and Ok(()) is returned
MigrateEnd ==
  /\ mig.pc = "run"
  /\ mig.todo = <<>>
  /\ mig' = [mig EXCEPT !.pc = "idle", !.ret = "ok"]
  /\ UNCHANGED <<users, documents, annotations, clock, nextUuid, exported,
                 decoded, lastOp, procs, files>>

NextMigrate ==
  \/ MigrateStart
  \/ MigrateEntry
  \/ MigrateEnd

\* the directories and stores the migration starts on
InitMigrate ==
  /\ users \in {{}, {AdminUser}}
  /\ documents \in {{}, {Doc1}}
  /\ annotations = {}
  /\ clock = 1
  /\ nextUuid = 1
  /\ exported = NoPackage
  /\ decoded = Taken
  /\ lastOp = NoOp
  /\ procs = [p \in Procs |-> Idle("none")]
  /\ mig = NoRun
  /\ \E c1 \in { Garbage,
                 LegacyArray(<<LegacyFull("A"), LegacyFull("B")>>),
                 LegacyArray(<<LegacyFull("A"), LegacyPartial("B")>>) },
        c2 \in { None, Some(LegacyArray(<<LegacyFull("C")>>)) },
        readable \in { {"dir/p2.md"}, {"dir/p1.md", "dir/p2.md"} } :
       files = [ann |-> [p \in Paths |->
                           IF p = "dir/p1.md" THEN Some(c1) ELSE c2],
                bak |-> [p \in Paths |-> None],
                docs |-> readable]

SpecMigrate == InitMigrate /\ [][NextMigrate]_vars

(***************************************************************************)
(* SpecMergeConc: concurrent calls of merge_imported_annotations on one    *)
(* document, each on a connection of its own; the SELECT of the texts and  *)
(* the INSERTs of the loop are statements of their own.                    *)
(***************************************************************************)
\* lists the concurrent calls carry: both have an annotation of text "C"
ConcBatchInputs ==
  { <<SourceAnnotation("A", StyleA), SourceAnnotation("C", StyleA)>>,
    <<SourceAnnotation("C", StyleB)>> }

\* merge_imported_annotations up to its loop: now is taken and the texts of
\* the document are read into the set
MergeCapture(p) ==
  \E list \in ConcBatchInputs, d \in documents, now \in Now(clock) :
    /\ procs[p].pc = "idle"
    /\ clock' = now
    /\ procs' = [procs EXCEPT ![p] =
                   [Idle("none") EXCEPT !.pc = "merge", !.id = d.id,
                      !.now = now, !.list = list, !.i = 1, !.count = 0,
                      !.texts = existing_texts(annotations, d.id)]]
    /\ UNCHANGED <<users, documents, annotations, nextUuid, exported, decoded,
                   lastOp, files, mig>>

\* a pass of the loop on an annotation whose text is in the set: continue
MergeSkip(p) ==
  LET c == procs[p]
  IN /\ c.pc = "merge"
     /\ c.i <= Len(c.list)
     /\ IsDuplicate(c.list[c.i].text, c.texts, annotations, c.id)
     /\ procs' = [procs EXCEPT ![p].i = c.i + 1]
     /\ UNCHANGED <<users, documents, annotations, clock, nextUuid, exported,
                    decoded, lastOp, files, mig>>

\* a pass of the loop on an annotation whose text is not in the set: the
\* record gets its id, document and times and is inserted; a refused insert
\* ends the call with Err
MergeInsert(p) ==
  LET c == procs[p]
  IN /\ c.pc = "merge"
     /\ c.i <= Len(c.list)
     /\ ~IsDuplicate(c.list[c.i].text, c.texts, annotations, c.id)
     /\ nextUuid <= MaxUuid
     /\ \E t \in Now(clock) :
          LET anno == MergedAnnotation(c.list[c.i], nextUuid, c.id, c.now)
              ins == add_annotation(annotations, anno, t)
          IN /\ clock' = t
             /\ nextUuid' = nextUuid + 1
             /\ annotations' = IF ins.ok THEN ins.val ELSE annotations
             /\ procs' = [procs EXCEPT ![p] =
                            IF ins.ok
                            THEN [c EXCEPT !.i = c.i + 1,
                                           !.count = c.count + 1]
                            ELSE Idle("err")]
     /\ UNCHANGED <<users, documents, exported, decoded, lastOp, files, mig>>

\* the loop is over: Ok(imported_count)
MergeReturn(p) ==
  LET c == procs[p]
  IN /\ c.pc = "merge"
     /\ c.i > Len(c.list)
     /\ procs' = [procs EXCEPT ![p] = [Idle("ok") EXCEPT !.count = c.count]]
     /\ UNCHANGED <<users, documents, annotations, clock, nextUuid, exported,
                    decoded, lastOp, files, mig>>

NextMergeConc ==
  \E p \in Procs :
    \/ MergeCapture(p)
    \/ MergeSkip(p)
    \/ MergeInsert(p)
    \/ MergeReturn(p)

InitMergeConc ==
  /\ users = {AdminUser}
  /\ documents = {Doc1}
  /\ annotations = { StoredRow(-1, Doc1, "A", StyleA) }
  /\ InitRest

SpecMergeConc == InitMergeConc /\ [][NextMergeConc]_vars

(***************************************************************************)
(* Properties of the document commands.                                    *)
(***************************************************************************)
PathUnique(docs) == \A d1, d2 \in docs : d1.path = d2.path => d1 = d2

\* C1: whatever the interleaving of save calls, no two rows of documents
\* share a path, and a path that has a row keeps that row (same id, same
\* created_at) as long as it has one: a save of it adds no second row
C1_OneRowPerPath ==
  [][ /\ PathUnique(documents')
      /\ \A d \in documents : \A e \in documents' :
           e.path = d.path => e.id = d.id /\ e.created_at = d.created_at
    ]_vars

\* two calls raced on one new path: one inserted, the other was refused, and
\* the path has one row
C1_Witness ==
  /\ \E p, q \in Procs : procs[p].ret = "ok" /\ procs[q].ret = "err"
  /\ Cardinality(documents) = 1

\* C2: a save of a path that has a row returns that row's id and created_at
\* and a last_modified not below the row's, and the record it returns is the
\* row the path has afterwards; a save of a new path returns the row it adds
C2_SaveKeepsIdentity ==
  [][ lastOp'.op = "save_document" =>
        /\ lastOp'.ok /\ lastOp'.doc # None
        /\ lastOp'.doc[1] \in documents'
        /\ lastOp'.doc[1].path = lastOp'.path
        /\ lastOp'.doc[1].content = lastOp'.content
        /\ \A d \in documents :
             d.path = lastOp'.path =>
               /\ lastOp'.doc[1].id = d.id
               /\ lastOp'.doc[1].created_at = d.created_at
               /\ lastOp'.doc[1].last_modified >= d.last_modified
               /\ documents' = (documents \ {d}) \cup {lastOp'.doc[1]}
        /\ (\A d \in documents : d.path # lastOp'.path) =>
               /\ documents' = documents \cup {lastOp'.doc[1]}
               /\ lastOp'.doc[1] \notin documents
    ]_vars

\* a path was saved again, later and with another content
C2_Witness ==
  /\ lastOp.op = "save_document"
  /\ lastOp.doc # None
  /\ lastOp.doc[1].last_modified > lastOp.doc[1].created_at
  /\ lastOp.doc[1].content = "c2"
  /\ lastOp.doc[1] \in documents

\* C3: the checksum of every row of documents is the checksum of its content
C3_ChecksumOfContent ==
  \A d \in documents : d.checksum = compute_checksum(d.content)

\* a row was updated to another content while another call is under way
C3_Witness ==
  /\ \E d \in documents : d.last_modified > d.created_at /\ d.content = "c2"
  /\ \E p \in Procs : procs[p].pc = "save" /\ procs[p].content = "c1"

(***************************************************************************)
(* Properties of the merge of a list.                                      *)
(***************************************************************************)
\* the texts of the rows of document doc_id
TextsOn(doc_id) ==
  { r.text : r \in { x \in annotations : x.document_id = doc_id } }

\* the annotations of list, in order, whose text is not in texts
NewOf(list, texts) == SelectSeq(list, LAMBDA a : a.text \notin texts)

\* C4: merge_imported_annotations takes the texts of the document once, before
\* the loop; it skips the annotations whose text is among them, inserts every
\* other one on the document in the order of the list, leaves the rows that
\* were there, and returns the number of rows it added
C4_MergeBatch ==
  [][ \A list \in BatchInputs, d \in documents :
      \A ticks \in [1..Len(list) -> 0..1] :
        MergeBatchStep(list, d.id, ticks, 0) =>
          LET new == NewOf(list, TextsOn(d.id))
              added == annotations' \ annotations
          IN /\ lastOp'.ok
             /\ annotations \subseteq annotations'
             /\ lastOp'.count = Len(new)
             /\ lastOp'.count = Cardinality(added)
             /\ \A k \in 1..Len(new) :
                  \E r \in added :
                    /\ r.id = nextUuid + k - 1
                    /\ r.document_id = d.id
                    /\ r.text = new[k].text
                    /\ row_to_annotation(r).note_visible = new[k].note_visible
                    /\ \A f \in StyleFields \ {"note_visible"} : r[f] = new[k][f]
    ]_vars

\* a list of one annotation was merged into a document that has rows and
\* lacks its text
C4_Witness ==
  /\ lastOp.op = "merge_imported_annotations"
  /\ lastOp.ok /\ lastOp.count = 1
  /\ \E r, x \in annotations :
       /\ r.id > 0 /\ r.text = "B" /\ r.user_id = SourceIds.user
       /\ x.id < 0 /\ x.document_id = r.document_id

\* the step of C5: the document has the texts A and B, the list is A, C, C
C5_Step ==
  /\ TextsOn(Doc1.id) = {"A", "B"}
  /\ \E list \in BatchInputs :
       /\ [i \in 1..Len(list) |-> list[i].text] = <<"A", "C", "C">>
       /\ \E ticks \in [1..Len(list) -> 0..1] :
            MergeBatchStep(list, Doc1.id, ticks, 0)

\* C5 (as the code has it): with the texts A and B on the document and the
\* list A, C, C, both C are inserted and the call returns 2
C5_BothInserted ==
  [][ C5_Step =>
        /\ lastOp'.ok /\ lastOp'.count = 2
        /\ Cardinality(annotations' \ annotations) = 2
        /\ \A r \in annotations' \ annotations :
             r.text = "C" /\ r.document_id = Doc1.id
    ]_vars

\* the document holds A, B and two rows C after the call returned 2
C5_Witness ==
  /\ lastOp.op = "merge_imported_annotations"
  /\ lastOp.count = 2
  /\ TextsOn(Doc1.id) = {"A", "B", "C"}
  /\ Cardinality({ r \in annotations :
                     r.document_id = Doc1.id /\ r.text = "C" }) = 2

\* C5 as stated: exactly one insertion, and the call returns 1
C5_OneInserted ==
  [][ C5_Step =>
        /\ lastOp'.count = 1
        /\ Cardinality(annotations' \ annotations) = 1
    ]_vars

(***************************************************************************)
(* Properties of import, export and the merge of what was decoded.         *)
(***************************************************************************)
\* the ids of the rows of the store
StoreIds ==
  { r.id : r \in annotations } \cup { d.id : d \in documents }
    \cup { u.id : u \in users }

\* the annotation ids a package carries
JsonIds(json) ==
  IF ParseBatch(json).ok
  THEN { json.annotations[i].id : i \in 1..Len(json.annotations) }
  ELSE IF ParseSingle(json).ok THEN { json.annotation.id } ELSE {}

ListIds(list) == { list[i].id : i \in 1..Len(list) }

\* the ids import_annotation gives differ from one another, from the ids of
\* the package and from the ids of the store
C6_DecodeFresh ==
  \A json \in ImportInputs :
    ImportStep(json) /\ decoded'.ok =>
      /\ ListIds(decoded'.list) \cap (JsonIds(json) \cup StoreIds) = {}
      /\ Cardinality(ListIds(decoded'.list)) = Len(decoded'.list)
      /\ Len(decoded'.list) > 0

\* the ids of the rows merge_imported_annotations adds differ from the ids of
\* the list and from the ids of the store
C6_MergeBatchFresh ==
  \A d \in documents :
    MergeBatchStep(decoded.list, d.id, NoTicks(decoded.list), 0) =>
      \A r \in annotations' \ annotations :
        r.id \notin ListIds(decoded.list) \cup StoreIds

\* C6 (as the code has it): import_annotation and merge_imported_annotations
\* give ids that differ from the ids of their input and of the store;
\* merge_imported_annotation adds its row under the id its argument carries,
\* which differs from the ids of the store
C6_FreshIds ==
  [][ /\ C6_DecodeFresh
      /\ C6_MergeBatchFresh
      /\ \A a \in MergeOneInputs, d \in documents :
           MergeOneStep(a, d.id, clock) /\ lastOp'.ok =>
             \E r \in annotations' :
               /\ annotations' = annotations \cup {r}
               /\ r.id = a.id
               /\ r.id \notin StoreIds
    ]_vars

\* an annotation of another store was merged alone and its row has the id it
\* came with, beside a row whose id import_annotation gave
C6_Witness ==
  /\ lastOp.op = "merge_imported_annotation" /\ lastOp.ok
  /\ \E r \in annotations : r.id = SourceIds.annotation
  /\ \E r \in annotations : r.id > 0

\* C6 as stated: merge_imported_annotation too gives an id that differs from
\* the id of its input
C6_AllFresh ==
  [][ /\ C6_DecodeFresh
      /\ C6_MergeBatchFresh
      /\ \A a \in MergeOneInputs, d \in documents :
           MergeOneStep(a, d.id, clock) /\ lastOp'.ok =>
             \E r \in annotations' :
               /\ annotations' = annotations \cup {r}
               /\ r.id # a.id
               /\ r.id \notin StoreIds
    ]_vars

\* the row r carries the text, the note, the anchor and the presentation of x
SameAnnotation(r, x) == \A f \in StyleFields \cup {"text"} : r[f] = x[f]

\* C7 (as the code has it): X of document D was exported and the package
\* decoded.  merge_imported_annotation of the decoded annotation into D adds
\* a row with X's text, note, anchor and presentation, another id and
\* document D; merge_imported_annotations of the decoded list into D adds
\* nothing and returns 0, X's text being on D
C7_RoundTrip ==
  [][ decoded.anno # None /\ decoded.anno[1] \in annotations =>
        LET x == decoded.anno[1]
        IN /\ Len(decoded.list) = 1
           /\ MergeOneStep(decoded.list[1], x.document_id, clock) =>
                /\ lastOp'.ok
                /\ \E r \in annotations' \ annotations :
                     /\ annotations' = annotations \cup {r}
                     /\ SameAnnotation(r, x)
                     /\ r.id # x.id
                     /\ r.document_id = x.document_id
           /\ MergeBatchStep(decoded.list, x.document_id,
                             NoTicks(decoded.list), 0) =>
                /\ lastOp'.ok /\ lastOp'.count = 0
                /\ annotations' = annotations
    ]_vars

\* a row with a note was exported, decoded and merged alone into its document
C7_Witness ==
  /\ lastOp.op = "merge_imported_annotation" /\ lastOp.ok
  /\ \E x, r \in annotations :
       /\ x.id < 0 /\ r.id > 0
       /\ r.user_id = AdminUser.id
       /\ r.document_id = x.document_id
       /\ x.note # None
       /\ SameAnnotation(r, x)

\* C7 as stated: the merge of the decoded list into D adds such a row
C7_ListRoundTrip ==
  [][ decoded.anno # None /\ decoded.anno[1] \in annotations =>
        LET x == decoded.anno[1]
        IN MergeBatchStep(decoded.list, x.document_id,
                          NoTicks(decoded.list), 0) =>
             \E r \in annotations' \ annotations :
               /\ SameAnnotation(r, x)
               /\ r.id # x.id
               /\ r.document_id = x.document_id
    ]_vars

\* C8: import_annotation of a package of the batch or the single shape whose
\* version is not "1.0" returns an error and no annotation, and leaves the
\* store as it was
C8_VersionGate ==
  [][ \A json \in ImportInputs :
        /\ ImportStep(json)
        /\ ParseBatch(json).ok \/ ParseSingle(json).ok
        /\ json.version # "1.0"
        => /\ ~lastOp'.ok
           /\ ~decoded'.ok /\ decoded'.list = <<>>
           /\ store' = store
           /\ nextUuid' = nextUuid
    ]_vars

\* a package of the single shape and of version 2.0 was refused
C8_Witness ==
  /\ lastOp.op = "import_annotation" /\ ~lastOp.ok
  /\ decoded.json # None
  /\ ParseSingle(decoded.json[1]).ok /\ ~ParseBatch(decoded.json[1]).ok
  /\ decoded.json[1].version = "2.0"

(***************************************************************************)
(* Properties of update_annotation and delete_document.                    *)
(***************************************************************************)
ImmutableFields == {"id", "document_id", "user_id", "user_name", "text",
                    "created_at"}

\* C9: no command changes the id, document_id, user_id, user_name, text or
\* created_at of a row it keeps; update_annotation leaves every other row as
\* it was, adds and removes none, and in the row of the id sets the note, the geometry, the highlight
\* and the anchor to those of its argument and updated_at to now; the row's
\* id, document_id, user_id, user_name, text and created_at stay, whatever
\* the argument carries for them
C9_UpdateEditableOnly ==
  [][ /\ \A r \in annotations : \A u \in annotations' :
           u.id = r.id => \A f \in ImmutableFields : u[f] = r[f]
      /\ lastOp'.op = "update_annotation" =>
           LET a == lastOp'.arg[1]
           IN /\ { r.id : r \in annotations' } = { r.id : r \in annotations }
              /\ Cardinality(annotations') = Cardinality(annotations)
              /\ \A r \in annotations :
                   IF r.id # a.id THEN r \in annotations'
                   ELSE \E u \in annotations' :
                          /\ u.id = r.id
                          /\ \A f \in ImmutableFields : u[f] = r[f]
                          /\ \A f \in StyleFields :
                               row_to_annotation(u)[f] = a[f]
                          /\ u.updated_at = clock'
    ]_vars

\* a row was updated with a record that carries another text, document and
\* user, while another row is in the table
C9_Witness ==
  /\ lastOp.op = "update_annotation"
  /\ \E r, x \in annotations :
       /\ r.id = lastOp.id /\ x.id # r.id
       /\ r.text # lastOp.arg[1].text
       /\ r.document_id # lastOp.arg[1].document_id
       /\ r.note = lastOp.arg[1].note /\ r.note # None
       /\ r.updated_at > r.created_at

\* C10: delete_document that returns Ok has removed the row of the document
\* and every annotation of it and nothing else; the annotations go first, so
\* a call that fails leaves the document row, with all of its annotations or
\* with none
C10_DeleteDocument ==
  [][ lastOp'.op = "delete_document" =>
        LET id == lastOp'.id
        IN /\ users' = users
           /\ \A a \in annotations : a.document_id # id => a \in annotations'
           /\ annotations' \subseteq annotations
           /\ documents' \subseteq documents
           /\ \A d \in documents : d.id # id => d \in documents'
           /\ lastOp'.ok =>
                /\ \A d \in documents' : d.id # id
                /\ \A a \in annotations' : a.document_id # id
           /\ ~lastOp'.ok =>
                /\ documents' = documents
                /\ \/ annotations' = annotations
                   \/ \A a \in annotations' : a.document_id # id
    ]_vars

\* a document with annotations was deleted while the other document keeps
\* its annotations
C10_Witness ==
  /\ lastOp.op = "delete_document" /\ lastOp.ok /\ lastOp.count >= 1
  /\ Cardinality(documents) = 1
  /\ annotations # {}
  /\ \A a \in annotations : a.document_id # lastOp.id


(***************************************************************************)
(* Properties of get_or_create_user under interleaving.                    *)
(***************************************************************************)
\* C11 as stated: whatever the interleaving, get_or_create_user has inserted
\* at most one row of users (the store starts with none and nothing else
\* inserts one), and a call that starts when a row exists returns a row of
\* the table and writes nothing
C11_AtMostOneUser ==
  [][ /\ Cardinality(users') <= 1
      /\ \A p \in Procs :
           UserRead(p) /\ users # {} =>
             /\ users' = users
             /\ procs'[p].pc = "idle" /\ procs'[p].ret = "ok"
             /\ \E u \in users : u.id = procs'[p].id
    ]_vars

\* two calls read the empty table, both inserted and both returned Ok
C11_Witness ==
  /\ Cardinality(users) = 2
  /\ \A p \in Procs : procs[p].pc = "idle" /\ procs[p].ret = "ok"
  /\ \E p, q \in Procs : procs[p].id # procs[q].id


(***************************************************************************)
(* Properties of migrate_sidecar_files.                                    *)
(***************************************************************************)
\* the sidecar the next pass of the loop is for, and what it holds
Sidecar == Head(mig.todo)
SidecarObjs == files.ann[Sidecar][1].objs

\* the sidecar holds a JSON array and its document is registered or readable
SidecarUsable ==
  /\ files.ann[Sidecar] # None
  /\ files.ann[Sidecar][1].kind = "array"
  /\ \/ Sidecar \in files.docs
     \/ get_document_by_path(documents, Sidecar) # None

Convertible(objs) == \A i \in 1..Len(objs) : JsonToAnnotation(objs[i]).ok

\* the sidecar was renamed to its backup name by the step
Renamed(p) == files'.ann[p] = None /\ files'.bak[p] = files.ann[p]

\* C12 as stated: for a readable document and a sidecar holding an array of n
\* legacy objects, a pass whose inserts and rename do not fail adds n rows
\* on the document, with highlight #ffd700 / underline and new ids, renames
\* the sidecar, and counts n migrated and no error
C12_MigratesAll ==
  [][ \A seen \in SeenUsers :
        /\ mig.pc = "run" /\ mig.todo # <<>>
        /\ SidecarUsable /\ Sidecar \in files.docs
        /\ MigrateEntryStep(seen, {}, TRUE)
        => LET n == Len(SidecarObjs)
               new == annotations' \ annotations
           IN /\ Cardinality(new) = n
              /\ annotations \subseteq annotations'
              /\ \A r \in new :
                   /\ \E d \in documents' :
                        d.path = Sidecar /\ r.document_id = d.id
                   /\ r.highlight_color = "#ffd700"
                   /\ r.highlight_type = "underline"
                   /\ r.id \notin StoreIds \cup {LegacyIds.annotation}
              /\ Renamed(Sidecar)
              /\ mig'.migrated = mig.migrated + n
              /\ mig'.errors = mig.errors
    ]_vars

\* the call ended with Err at an object without highlight fields: the
\* sidecar is where it was, one of its two objects is a row
C12_Witness ==
  /\ mig.pc = "idle" /\ mig.ret = "err"
  /\ files.ann["dir/p1.md"] # None
  /\ \E r \in annotations : r.text = "A" /\ r.id > 0
  /\ \A r \in annotations : r.text # "B"

\* C13 as stated: every row a pass inserts carries the id and the name of a
\* user named "migrated", who is in the table after the pass
C13_MigratedUser ==
  [][ \A seen \in SeenUsers, renameOk \in BOOLEAN :
      \A fail \in SUBSET (1..2) :
        /\ mig.pc = "run" /\ mig.todo # <<>>
        /\ MigrateEntryStep(seen, fail, renameOk)
        => \A r \in annotations' \ annotations :
             /\ r.user_name = "migrated"
             /\ \E u \in users' : u.name = "migrated" /\ u.id = r.user_id
    ]_vars

\* rows were migrated to the user the store had, and no user "migrated" is
\* in the table
C13_Witness ==
  /\ \E r \in annotations :
       r.id > 0 /\ r.user_id = AdminUser.id /\ r.user_name = "admin"
  /\ \A u \in users : u.name # "migrated"
  /\ \E p \in Paths : files.bak[p] # None

\* C14: a pass for a sidecar whose document is not registered and cannot be
\* read counts one error, inserts no annotation, no document and no user,
\* leaves the files as they are, and the loop goes on with the next sidecar
C14_UnreadableDocument ==
  [][ \A seen \in SeenUsers, renameOk \in BOOLEAN :
      \A fail \in SUBSET (1..2) :
        /\ mig.pc = "run" /\ mig.todo # <<>>
        /\ get_document_by_path(documents, Sidecar) = None
        /\ Sidecar \notin files.docs
        /\ MigrateEntryStep(seen, fail, renameOk)
        => /\ mig'.errors = mig.errors + 1
           /\ mig'.migrated = mig.migrated
           /\ store' = store
           /\ files' = files
           /\ mig'.pc = "run" /\ mig'.todo = Tail(mig.todo)
    ]_vars

\* the run is over: the sidecar of the unreadable document holds an array
\* and is where it was, its document is not registered, and the other
\* sidecar was migrated and renamed
C14_Witness ==
  /\ mig.pc = "idle" /\ mig.ret = "ok" /\ mig.errors >= 1
  /\ files.ann["dir/p1.md"] # None
  /\ files.ann["dir/p1.md"][1].kind = "array"
  /\ "dir/p1.md" \notin files.docs
  /\ get_document_by_path(documents, "dir/p1.md") = None
  /\ files.bak["dir/p2.md"] # None
  /\ \E r \in annotations : r.text = "C"

\* C15: in a pass over a sidecar whose objects all convert, each insert that
\* fails adds one to the error count and nothing else: every other object
\* of the file becomes a row, before or after it, the rows that were there
\* stay, and the rename is made whatever the number of inserts that failed
C15_RecordErrors ==
  [][ \A seen \in SeenUsers, renameOk \in BOOLEAN :
      \A fail \in SUBSET (1..2) :
        /\ mig.pc = "run" /\ mig.todo # <<>>
        /\ SidecarUsable /\ Convertible(SidecarObjs)
        /\ fail \subseteq 1..Len(SidecarObjs)
        /\ MigrateEntryStep(seen, fail, renameOk)
        => LET n == Len(SidecarObjs)
               new == annotations' \ annotations
           IN /\ mig'.errors = mig.errors + Cardinality(fail)
              /\ mig'.migrated = mig.migrated + n - Cardinality(fail)
              /\ Cardinality(new) = n - Cardinality(fail)
              /\ \A i \in (1..n) \ fail :
                   \E r \in new : r.text = SidecarObjs[i].text
              /\ annotations \subseteq annotations'
              /\ renameOk => Renamed(Sidecar)
              /\ ~renameOk => files' = files
              /\ mig'.pc = "run" /\ mig'.todo = Tail(mig.todo)
    ]_vars

\* the insert of the first object failed, the second object is a row, and
\* the sidecar has its backup name
C15_Witness ==
  /\ mig.errors = 1 /\ mig.migrated = 1
  /\ files.bak["dir/p1.md"] # None /\ files.ann["dir/p1.md"] = None
  /\ \E r \in annotations : r.text = "B"
  /\ \A r \in annotations : r.text # "A"


(***************************************************************************)
(* Properties of what import and merge keep of the source.                 *)
(***************************************************************************)
\* the annotations a package carries, as records
PackageAnnotations(json) ==
  IF ParseBatch(json).ok THEN ParseBatch(json).val.annotations
  ELSE IF ParseSingle(json).ok THEN ParseSingle(json).val.annotations
  ELSE <<>>

\* import_annotation changes the id of an annotation and nothing else
C16_DecodeKeeps ==
  \A json \in ImportInputs :
    ImportStep(json) /\ decoded'.ok =>
      /\ Len(decoded'.list) = Len(PackageAnnotations(json))
      /\ \A i \in 1..Len(decoded'.list) :
           \A f \in AnnotationFields \ {"id"} :
             decoded'.list[i][f] = PackageAnnotations(json)[i][f]

\* the rows merge_imported_annotations adds are on the target document and
\* carry the user of the annotation they were made from
C16_MergeBatchRebinds ==
  \A d \in documents :
    MergeBatchStep(decoded.list, d.id, NoTicks(decoded.list), 0) =>
      \A r \in annotations' \ annotations :
        /\ r.document_id = d.id
        /\ \E i \in 1..Len(decoded.list) :
             /\ r.text = decoded.list[i].text
             /\ r.user_id = decoded.list[i].user_id
             /\ r.user_name = decoded.list[i].user_name

\* C16 (as the code has it): a decoded annotation carries the document_id,
\* the user_id and the user_name of the package, only its id is new; the row
\* a merge stores has the target document for document_id and still the
\* user_id and user_name of the package
C16_KeepsSourceUser ==
  [][ /\ C16_DecodeKeeps
      /\ C16_MergeBatchRebinds
      /\ \A a \in MergeOneInputs, d \in documents :
           MergeOneStep(a, d.id, clock) /\ lastOp'.ok =>
             \E r \in annotations' :
               /\ annotations' = annotations \cup {r}
               /\ r.document_id = d.id
               /\ r.user_id = a.user_id /\ r.user_name = a.user_name
    ]_vars

\* a package of another store was decoded and merged: the row is on a
\* document of this store and carries the user of the other store
C16_Witness ==
  /\ lastOp.op \in {"merge_imported_annotation", "merge_imported_annotations"}
  /\ lastOp.ok
  /\ \E r \in annotations :
       /\ r.id > 0
       /\ r.user_id = SourceIds.user
       /\ r.document_id \in { d.id : d \in documents }
  /\ \A u \in users : u.id # SourceIds.user

\* C16 as stated: a decoded annotation carries neither the document_id nor
\* the user_id of the package, and the row a merge stores has the target
\* document and a user_id that is not the package's
C16_Detached ==
  [][ /\ \A json \in ImportInputs :
           ImportStep(json) /\ decoded'.ok =>
             \A i \in 1..Len(decoded'.list) :
               /\ decoded'.list[i].document_id
                    # PackageAnnotations(json)[i].document_id
               /\ decoded'.list[i].user_id # PackageAnnotations(json)[i].user_id
      /\ \A a \in MergeOneInputs, d \in documents :
           MergeOneStep(a, d.id, clock) /\ lastOp'.ok =>
             \E r \in annotations' :
               /\ annotations' = annotations \cup {r}
               /\ r.document_id = d.id
               /\ r.user_id # a.user_id
    ]_vars


(***************************************************************************)
(* Properties of a merge that fails and of the timestamps of merged rows.  *)
(***************************************************************************)
\* C17 as stated: a merge_imported_annotations that returns Err, an insert
\* having failed, leaves the annotations as they were before the call
C17_FailureCommitsNothing ==
  [][ \A list \in BatchInputs, d \in documents :
      \A ticks \in [1..Len(list) -> 0..1], failAt \in 1..Len(list) :
        MergeBatchStep(list, d.id, ticks, failAt) /\ ~lastOp'.ok =>
          annotations' = annotations
    ]_vars

\* the call returned Err at its second insert and the row of its first
\* insert is on the document
C17_Witness ==
  /\ lastOp.op = "merge_imported_annotations" /\ ~lastOp.ok
  /\ TextsOn(Doc1.id) = {"A", "B", "C"}
  /\ \E r \in annotations :
       r.document_id = Doc1.id /\ r.text = "C" /\ r.id = nextUuid - 2
  /\ Cardinality({ r \in annotations : r.text = "C" /\ r.id > 0 }) = 1

\* C18 (as the code has it): two save_document calls can both read "no row"
\* for one path; the INSERT of the one that comes first adds the row and that
\* call returns Ok, the INSERT of the other is refused by UNIQUE(path), that
\* call returns Err and documents stays as it was: the path has one row
C18_SecondInsertRefused ==
  [][ \A p \in Procs :
        ( /\ procs[p].pc = "save" /\ procs[p].existing = None
          /\ procs'[p].pc = "idle" ) =>
          IF \E d \in documents : d.path = procs[p].path
          THEN /\ procs'[p].ret = "err"
               /\ documents' = documents
          ELSE /\ procs'[p].ret = "ok"
               /\ \E row \in documents' \ documents :
                    /\ row.path = procs[p].path
                    /\ row.id = nextUuid
                    /\ documents' = documents \cup {row}
               /\ \A q \in Procs :
                    ( /\ q # p
                      /\ procs'[q].pc = "save" /\ procs'[q].existing = None
                      /\ procs'[q].path = procs[p].path ) =>
                      ~InsertDocument(documents',
                         NewDocumentRecord(nextUuid', procs'[q].path,
                           procs'[q].content,
                           compute_checksum(procs'[q].content),
                           procs'[q].now)).ok
    ]_vars

\* both calls had read "no row" for the path; t1 inserted the row with the
\* first id, t2 drew the second id and was refused
C18_Witness ==
  /\ procs["t1"].ret = "ok" /\ procs["t2"].ret = "err"
  /\ nextUuid = 3
  /\ \E d \in documents : documents = {d} /\ d.id = 1

\* C18 as stated: every call that read "no row" for its path inserts its row
\* and returns Ok, so that two such calls leave two rows of the path
C18_BothInsert ==
  [][ \A p \in Procs :
        ( /\ procs[p].pc = "save" /\ procs[p].existing = None
          /\ procs'[p].pc = "idle" ) =>
          /\ procs'[p].ret = "ok"
          /\ \E row \in documents' \ documents : row.path = procs[p].path
    ]_vars

\* C19 (as the code has it): a row merge_imported_annotations inserts has for
\* created_at the now of the call and for updated_at the clock add_annotation
\* reads at its insert, which is not below created_at; the row inserted last
\* has the clock at the end of the call
C19_CreatedBeforeUpdated ==
  [][ lastOp'.op = "merge_imported_annotations" =>
        LET new == annotations' \ annotations
        IN /\ \A r \in new :
                /\ r.created_at = clock
                /\ r.updated_at >= r.created_at
                /\ r.updated_at <= clock'
           /\ lastOp'.ok /\ new # {} =>
                \E r \in new :
                  /\ \A x \in new : x.id <= r.id
                  /\ r.updated_at = clock'
    ]_vars

\* a merged row whose updated_at is after its created_at
C19_Witness ==
  /\ lastOp.op = "merge_imported_annotations" /\ lastOp.ok
  /\ \E r \in annotations :
       r.id > 0 /\ r.user_id = SourceIds.user /\ r.updated_at > r.created_at

\* C19 as stated: created_at = updated_at in every row the call inserts
\* while the clock may advance
C19_CreatedEqualsUpdated ==
  [][ lastOp'.op = "merge_imported_annotations" =>
        \A r \in annotations' \ annotations : r.created_at = r.updated_at
    ]_vars

\* C20: a pass of the loop of merge_imported_annotations decides by the set
\* of texts the call captured before its loop, whatever rows other calls have
\* inserted since: a text in the set is skipped and nothing is written, a
\* text not in the set is inserted as a new row of the document and counted,
\* even when the document has a row of that text by now; the call returns the
\* count of the rows it inserted
C20_CaptureThenInsert ==
  [][ \A p \in Procs :
        ( /\ procs[p].pc = "merge"
          /\ procs'[p] # procs[p] ) =>
          LET c == procs[p]
          IN IF c.i > Len(c.list)
             THEN /\ procs'[p].pc = "idle" /\ procs'[p].ret = "ok"
                  /\ procs'[p].count = c.count
                  /\ annotations' = annotations
             ELSE IF c.list[c.i].text \in c.texts
             THEN /\ annotations' = annotations
                  /\ procs'[p].count = c.count
                  /\ procs'[p].pc = "merge"
             ELSE /\ procs'[p].pc = "merge"
                  /\ procs'[p].count = c.count + 1
                  /\ \E r \in annotations' \ annotations :
                       /\ annotations' = annotations \cup {r}
                       /\ r.text = c.list[c.i].text
                       /\ r.document_id = c.id
                       /\ r.id = nextUuid
    ]_vars

\* both calls captured the texts of Doc1 before either inserted, both inserted
\* their annotation of text "C" and returned a count of 1: Doc1 has two rows
\* of text "C"
C20_Witness ==
  /\ \A p \in Procs :
       procs[p].pc = "idle" /\ procs[p].ret = "ok" /\ procs[p].count = 1
  /\ Cardinality({ r \in annotations :
                     r.document_id = Doc1.id /\ r.text = "C" }) = 2
  /\ nextUuid = 3

(***************************************************************************)
(* Properties of repeated runs of migrate_sidecar_files.                   *)
(***************************************************************************)
\* the rows of the document registered for doc_path
RowsOfPath(annos, docs, doc_path) ==
  { r \in annos : \E d \in docs : d.path = doc_path /\ r.document_id = d.id }

\* C21: once a sidecar has its backup name, no step of this or a later run
\* is a pass for it: it is in no read_dir listing, it keeps its backup name
\* and its document gets no row.  A pass whose rename takes no effect leaves
\* the sidecar where it was, and a pass for a sidecar whose objects convert
\* inserts a new row for each object whose insert does not fail, whatever
\* rows of the same texts the document has from an earlier run
C21_RenamedOnce ==
  [][ /\ \A p \in Paths :
           files.bak[p] # None =>
             /\ files.ann[p] = None /\ files'.ann[p] = None
             /\ files'.bak[p] = files.bak[p]
             /\ \A i \in 1..Len(mig'.todo) : mig'.todo[i] # p
             /\ RowsOfPath(annotations', documents', p)
                  = RowsOfPath(annotations, documents, p)
      /\ \A seen \in SeenUsers, renameOk \in BOOLEAN :
           ( /\ mig.pc = "run" /\ mig.todo # <<>>
             /\ SidecarUsable /\ Convertible(SidecarObjs)
             /\ MigrateEntryStep(seen, {}, renameOk) ) =>
               LET n == Len(SidecarObjs)
                   new == annotations' \ annotations
               IN /\ Cardinality(new) = n
                  /\ annotations \subseteq annotations'
                  /\ new \subseteq RowsOfPath(annotations', documents', Sidecar)
                  /\ \A i \in 1..n :
                       \E r \in new : /\ r.text = SidecarObjs[i].text
                                      /\ r.id >= nextUuid
                  /\ IF renameOk THEN Renamed(Sidecar) ELSE files' = files
    ]_vars

\* the rename of the sidecar of p2 took no effect in a first run, a second
\* run inserted its object again and renamed it, and a third run has ended
\* without a row migrated: the document has two rows of text "C"
C21_Witness ==
  /\ mig.pc = "idle" /\ mig.ret = "ok" /\ mig.migrated = 0
  /\ files.bak["dir/p2.md"] # None /\ files.ann["dir/p2.md"] = None
  /\ Cardinality({ r \in RowsOfPath(annotations, documents, "dir/p2.md") :
                     r.text = "C" }) = 2

(***************************************************************************)
(* Properties of a legacy object that does not convert.                    *)
(***************************************************************************)
\* the first object of the array that does not convert
FirstUnconvertible(objs) ==
  CHOOSE k \in 1..Len(objs) :
    /\ ~JsonToAnnotation(objs[k]).ok
    /\ \A i \in 1..(k - 1) : JsonToAnnotation(objs[i]).ok

\* C22: a pass for a sidecar whose k-th object is the first that does not
\* convert ends the call with Err: the sidecars that were left, this one
\* included, stay as they are and none is renamed, no object from the k-th
\* on becomes a row, each of the k - 1 objects before it whose insert did not
\* fail is a new row, and the rows, documents and users that were in the
\* store stay
C22_ConversionAborts ==
  [][ \A seen \in SeenUsers, renameOk \in BOOLEAN :
      \A fail \in SUBSET (1..2) :
        ( /\ mig.pc = "run" /\ mig.todo # <<>>
          /\ SidecarUsable /\ ~Convertible(SidecarObjs)
          /\ fail \subseteq 1..Len(SidecarObjs)
          /\ MigrateEntryStep(seen, fail, renameOk) ) =>
            LET k == FirstUnconvertible(SidecarObjs)
                before == (1..(k - 1)) \ fail
                new == annotations' \ annotations
            IN /\ mig'.pc = "idle" /\ mig'.ret = "err"
               /\ mig'.todo = mig.todo
               /\ files' = files
               /\ annotations \subseteq annotations'
               /\ documents \subseteq documents'
               /\ users \subseteq users'
               /\ Cardinality(new) = Cardinality(before)
               /\ \A i \in before :
                    \E r \in new : r.text = SidecarObjs[i].text
               /\ \A r \in new :
                    \E i \in before : r.text = SidecarObjs[i].text
    ]_vars

\* the call ended with Err in its first pass, at the second object of the
\* sidecar of p1: the first object is a row, both sidecars are where they
\* were and the object of the sidecar of p2 is no row
C22_Witness ==
  /\ mig.pc = "idle" /\ mig.ret = "err"
  /\ Len(mig.todo) = 2 /\ Head(mig.todo) = "dir/p1.md"
  /\ \A p \in Paths : files.ann[p] # None /\ files.bak[p] = None
  /\ Cardinality({ r \in annotations : r.id > 0 }) = 1
  /\ \E r \in annotations : r.id > 0 /\ r.text = "A"

====
